---- MODULE Spec2Model ----
(***************************************************************************)
(* MdxChatCompletion (packages/ai-jsx/src/react/jit-ui/mdx.tsx): the async *)
(* generator that hydrates the frames of a streamed MDX completion, and    *)
(* the AST walk (convertAstToComponent) it hydrates them with.             *)
(*                                                                         *)
(* JavaScript values are records: a string is [js |-> "string", str |-> s],*)
(* null is [js |-> "null"], true is [js |-> "boolean", bool |-> TRUE], an  *)
(* object keeps its own fields.  A React element is                        *)
(* [type, props, children].  A function that may throw returns             *)
(* [threw, error, value, log]: log is what it handed to the logger before  *)
(* it returned or threw.                                                   *)
(***************************************************************************)
EXTENDS Integers, Sequences, FiniteSets, TLC

VARIABLES components, hydrate, pc, frame, frames, final, emitted, result,
          logger, hydrations, requested

vars == <<components, hydrate, pc, frame, frames, final, emitted, result,
          logger, hydrations, requested>>

(***************************************************************************)
(* Bounds                                                                  *)
(***************************************************************************)
MaxFrames == 2

MaxChildren == 2

(***************************************************************************)
(* JavaScript values                                                       *)
(***************************************************************************)
null == [js |-> "null"]

true == [js |-> "boolean", bool |-> TRUE]

Str(s) == [js |-> "string", str |-> s]

\* {type: 'mdxJsxAttributeValueExpression', ...}: the value of b in <A b={null} />
AttributeValueExpression == [js |-> "object", type |-> "mdxJsxAttributeValueExpression"]

(***************************************************************************)
(* interface Node and the nodes of the documents the model hydrates        *)
(***************************************************************************)
Root(children) == [type |-> "root", children |-> children]

Element(tagName, children) == [type |-> "element", tagName |-> tagName, children |-> children]

JsxElement(type, name, attributes, children) ==
  [type |-> type, name |-> name, attributes |-> attributes, children |-> children]

Text(value) == [type |-> "text", value |-> value]

Esm == [type |-> "mdxjsEsm", value |-> "import"]

\* a node of the parser that the walk has no case for ({expression} in the text)
FlowExpression == [type |-> "mdxFlowExpression", value |-> "1"]

Attribute(name, value) == [type |-> "mdxJsxAttribute", name |-> name, value |-> value]

\* the component names the documents use, and the registries of a session
ComponentNames == {"Badge", "Card"}

Registries == { <<>>, [Badge |-> "BadgeComponent"] }

AttributeLists ==
  { <<>>,
    <<Attribute("color", Str("red"))>>,
    <<Attribute("open", null), Attribute("color", Str("red")), Attribute("color", Str("blue"))>>,
    <<Attribute("x", AttributeValueExpression)>>,
    <<Attribute("color", Str("red")), Attribute("x", AttributeValueExpression)>> }

ChildLists ==
  { <<>>,
    <<Text("Hi")>>,
    <<Text("Hi"), Esm, JsxElement("mdxJsxTextElement", "Card", <<>>, <<>>), Text("\n")>>,
    <<JsxElement("mdxJsxTextElement", "Badge", <<Attribute("x", AttributeValueExpression)>>, <<>>),
      FlowExpression>> }

ChildNodes ==
  { Text("\n"), Text("hello"), Esm, FlowExpression }
  \cup { Element("p", c) : c \in ChildLists }
  \cup { JsxElement("mdxJsxFlowElement", n, a, c) :
           n \in ComponentNames, a \in AttributeLists, c \in ChildLists }

SeqsUpTo(S, n) == UNION { [1..k -> S] : k \in 0..n }

\* an MDX string is what the parser makes of it: a tree, or a syntax error
Mdx(ast) == [wellFormed |-> TRUE, ast |-> ast]

Malformed == [wellFormed |-> FALSE]

Documents == {Malformed} \cup { Mdx(Root(s)) : s \in SeqsUpTo(ChildNodes, MaxChildren) }

(***************************************************************************)
(* Results of functions that may throw                                     *)
(***************************************************************************)
Return(value, log) == [threw |-> FALSE, error |-> "", value |-> value, log |-> log]

Throw(error, log) == [threw |-> TRUE, error |-> error, value |-> null, log |-> log]

Warn(msg, component) == [level |-> "warn", msg |-> msg, component |-> component]

Trace(msg) == [level |-> "trace", msg |-> msg, component |-> ""]

ReactElement(type, props, children) == [type |-> type, props |-> props, children |-> children]

\* _.compact: the falsy values an array of walk results can hold are the nulls
compact(array) == SelectSeq(array, LAMBDA v : v # null)

\* attr.value?.type
HasType(value) == value.js = "object" /\ "type" \in DOMAIN value

RECURSIVE reducePropsKeepsExpression(_, _)
\* reduceProps without the throw: an expression value is stored like a literal
reducePropsKeepsExpression(attributes, acc) ==
  IF attributes = <<>> THEN Return(acc, <<>>)
  ELSE LET attr == Head(attributes) IN
       reducePropsKeepsExpression(Tail(attributes),
         [n \in (DOMAIN acc) \cup {attr.name} |->
            IF n = attr.name
            THEN (IF attr.value = null THEN true ELSE attr.value)
            ELSE acc[n]])

RECURSIVE reducePropsKeepsNull(_, _)
\* reduceProps that stores the null of a bare attribute as it is
reducePropsKeepsNull(attributes, acc) ==
  IF attributes = <<>> THEN Return(acc, <<>>)
  ELSE LET attr == Head(attributes) IN
       IF HasType(attr.value)
       THEN Throw("Unimplemented code path", <<>>)
       ELSE reducePropsKeepsNull(Tail(attributes),
              [n \in (DOMAIN acc) \cup {attr.name} |->
                 IF n = attr.name THEN attr.value ELSE acc[n]])

RECURSIVE reduceProps(_, _)
\* attributes.reduce((acc, attr) => ..., {}) of convertAstToComponentRec
reduceProps(attributes, acc) ==
  IF attributes = <<>> THEN Return(acc, <<>>)
  ELSE LET attr == Head(attributes) IN
       IF HasType(attr.value)
       THEN Throw("Unimplemented code path", <<>>)
       ELSE reduceProps(Tail(attributes),
              [n \in (DOMAIN acc) \cup {attr.name} |->
                 IF n = attr.name
                 THEN (IF attr.value = null THEN true ELSE attr.value)
                 ELSE acc[n]])

RECURSIVE convertAstToComponentRec(_, _)
RECURSIVE mapChildrenReversed(_, _)
\* mapChildren that collects the results back to front
mapChildrenReversed(children, registry) ==
  IF children = <<>> THEN Return(<<>>, <<>>)
  ELSE LET h == convertAstToComponentRec(Head(children), registry) IN
       IF h.threw THEN h
       ELSE LET t == mapChildrenReversed(Tail(children), registry) IN
            IF t.threw THEN Throw(t.error, h.log \o t.log)
            ELSE Return(t.value \o <<h.value>>, h.log \o t.log)

RECURSIVE mapChildren(_, _)
\* children.map(convertAstToComponentRec): in order, stopping at the first throw
mapChildren(children, registry) ==
  IF children = <<>> THEN Return(<<>>, <<>>)
  ELSE LET h == convertAstToComponentRec(Head(children), registry) IN
       IF h.threw THEN h
       ELSE LET t == mapChildren(Tail(children), registry) IN
            IF t.threw THEN Throw(t.error, h.log \o t.log)
            ELSE Return(<<h.value>> \o t.value, h.log \o t.log)

\* convertRoot without the _.compact
convertRootKeepsNulls(children, registry) ==
  LET m == mapChildren(children, registry) IN
  IF m.threw THEN m
  ELSE Return(ReactElement("div", <<>>, m.value), m.log)

\* case 'root'
convertRoot(children, registry) ==
  LET m == mapChildren(children, registry) IN
  IF m.threw THEN m
  ELSE Return(ReactElement("div", <<>>, compact(m.value)), m.log)

\* case 'element': a div that starts with the text "element "; tagName is not used
convertElement(children, registry) ==
  LET m == mapChildren(children, registry) IN
  IF m.threw THEN m
  ELSE Return(ReactElement("div", <<>>, <<Str("element ")>> \o compact(m.value)), m.log)

\* convertJsxElement that walks the children before it looks the component up
convertJsxElementWalksChildrenFirst(componentName, attributes, children, registry) ==
  LET props == reduceProps(attributes, <<>>) IN
  IF props.threw THEN props
  ELSE LET m == mapChildren(children, registry) IN
       IF m.threw THEN m
       ELSE IF componentName \notin DOMAIN registry
       THEN Return(null, m.log \o <<Warn("Ignoring component", componentName)>>)
       ELSE Return(ReactElement(registry[componentName], props.value, compact(m.value)),
                   m.log)

\* case 'mdxJsxTextElement': case 'mdxJsxFlowElement'
convertJsxElement(componentName, attributes, children, registry) ==
  LET props == reduceProps(attributes, <<>>) IN
  IF props.threw THEN props
  ELSE IF componentName \notin DOMAIN registry
  THEN Return(null, <<Warn("Ignoring component", componentName)>>)
  ELSE LET m == mapChildren(children, registry) IN
       IF m.threw THEN m
       ELSE Return(ReactElement(registry[componentName], props.value, compact(m.value)),
                   m.log)

\* convertText without the test for "\n"
convertTextNoLineBreak(ast) == Return(ReactElement("span", <<>>, <<Str(ast.value)>>), <<>>)

\* case 'text'
convertText(ast) ==
  IF ast.value = "\n"
  THEN Return(ReactElement("br", <<>>, <<>>), <<>>)
  ELSE Return(ReactElement("span", <<>>, <<Str(ast.value)>>), <<>>)

convertAstToComponentRec(ast, registry) ==
  LET type == ast.type
      children == IF "children" \in DOMAIN ast THEN ast.children ELSE <<>>
      attributes == IF "attributes" \in DOMAIN ast THEN ast.attributes ELSE <<>>
  IN
  CASE type = "root" -> convertRoot(children, registry)
    [] type = "element" -> convertElement(children, registry)
    [] type \in {"mdxJsxTextElement", "mdxJsxFlowElement"} ->
         convertJsxElement(ast.name, attributes, children, registry)
    [] type = "text" -> convertText(ast)
    [] type = "mdxjsEsm" -> Return(null, <<>>)
    [] OTHER -> Throw("Unhandled MDX AST type", <<>>)

convertAstToComponent(ast, registry) == convertAstToComponentRec(ast, registry)

\* await compile(mdx, {rehypePlugins: [rehypePlugin]}): the plugin receives the tree
compile(mdx) ==
  IF mdx.wellFormed THEN Return(mdx.ast, <<>>) ELSE Throw("compile", <<>>)

hydrateMDX(mdx, registry) ==
  LET compiled == compile(mdx) IN
  IF compiled.threw THEN compiled
  ELSE LET hydrated == convertAstToComponent(compiled.value, registry) IN
       IF hydrated.threw THEN hydrated
       ELSE LET again == convertAstToComponent(compiled.value, registry)
                log == hydrated.log \o <<Warn("Hydrating MDX", "")>> \o again.log
            IN IF again.threw THEN Throw(again.error, log)
               ELSE Return(ReactElement("AI.React", <<>>, <<again.value>>), log)

(***************************************************************************)
(* The session: the generation source, the generator and its consumer      *)
(***************************************************************************)
undefined == [js |-> "undefined"]

\* the frames and final values the generation source of the model produces
StreamDocs ==
  { Malformed,
    Mdx(Root(<<Text("hello")>>)),
    Mdx(Root(<<JsxElement("mdxJsxFlowElement", "Badge", <<Attribute("color", Str("red"))>>,
                          <<Text("Hi")>>)>>)),
    Mdx(Root(<<JsxElement("mdxJsxFlowElement", "Badge", <<Attribute("color", Str("red"))>>,
                          <<Text("Hi")>>),
               JsxElement("mdxJsxFlowElement", "Card", <<>>, <<>>)>>)),
    Mdx(Root(<<JsxElement("mdxJsxFlowElement", "Badge",
                          <<Attribute("x", AttributeValueExpression)>>, <<>>)>>)),
    Mdx(Root(<<FlowExpression>>)) }

\* const completion = <>...</>, which render(completion) streams
completion == ReactElement("React.Fragment", <<>>, <<Str("completion")>>)

Pending == [status |-> "pending"]

Returned(value) == [status |-> "returned", value |-> value]

Thrown(error) == [status |-> "thrown", error |-> error]

Init ==
  /\ components \in Registries
  /\ hydrate \in BOOLEAN
  /\ pc = "suspendedStart"
  /\ frame = undefined
  /\ frames = <<>>
  /\ final = undefined
  /\ emitted = <<>>
  /\ result = Pending
  /\ logger = <<>>
  /\ hydrations = <<>>
  /\ requested = 0

\* the consumer's first next(): the body runs up to the for await
Start ==
  /\ pc = "suspendedStart"
  /\ IF ~hydrate
     THEN pc' = "done" /\ result' = Returned(completion)
     ELSE pc' = "loop" /\ UNCHANGED result
  /\ UNCHANGED <<components, hydrate, frame, frames, final, emitted, logger, hydrations,
                 requested>>

\* RequestFrame that also asks for the next frame while the current one waits to be hydrated
RequestFramePrefetches ==
  /\ pc \in {"loop", "try"}
  /\ pc' = "awaitFrame"
  /\ requested' = requested + 1
  /\ UNCHANGED <<components, hydrate, frame, frames, final, emitted, result, logger,
                 hydrations>>

\* for await (const frame of renderedCompletion): ask the source for the next frame
RequestFrame ==
  /\ pc = "loop"
  /\ pc' = "awaitFrame"
  /\ requested' = requested + 1
  /\ UNCHANGED <<components, hydrate, frame, frames, final, emitted, result, logger,
                 hydrations>>

\* the source answers with one more frame
FrameArrives ==
  /\ pc = "awaitFrame"
  /\ Len(frames) < MaxFrames
  /\ \E d \in StreamDocs :
       /\ frame' = d
       /\ frames' = Append(frames, d)
  /\ pc' = "try"
  /\ UNCHANGED <<components, hydrate, final, emitted, result, logger, hydrations, requested>>

\* the source answers that it is done; await renderedCompletion is its final value
StreamEnds ==
  /\ pc = "awaitFrame"
  /\ \E d \in StreamDocs : final' = d
  /\ pc' = "finalize"
  /\ UNCHANGED <<components, hydrate, frame, frames, emitted, result, logger, hydrations,
                 requested>>

\* HydrateFrame with a catch that yields what it has: a frame that fails is emitted too
HydrateFrameEmitsUnparsable ==
  /\ pc = "try"
  /\ LET h == hydrateMDX(frame, components) IN
     /\ hydrations' = Append(hydrations, frame)
     /\ logger' = logger \o h.log
     /\ emitted' = Append(emitted, ReactElement("AI.React", <<>>, <<h.value>>))
     /\ pc' = "suspendedYield"
  /\ UNCHANGED <<components, hydrate, frame, frames, final, result, requested>>

\* HydrateFrame without the try: the failure of a frame ends the generator
HydrateFrameNoCatch ==
  /\ pc = "try"
  /\ LET h == hydrateMDX(frame, components) IN
     /\ hydrations' = Append(hydrations, frame)
     /\ logger' = logger \o h.log
     /\ IF h.threw
        THEN /\ pc' = "failed"
             /\ result' = Thrown(h.error)
             /\ UNCHANGED emitted
        ELSE /\ emitted' = Append(emitted, h.value)
             /\ pc' = "suspendedYield"
             /\ UNCHANGED result
  /\ UNCHANGED <<components, hydrate, frame, frames, final, requested>>

\* HydrateFrame with a catch that rethrows the walk's "Unhandled MDX AST type"
HydrateFrameRethrowsUnhandled ==
  /\ pc = "try"
  /\ LET h == hydrateMDX(frame, components) IN
     /\ hydrations' = Append(hydrations, frame)
     /\ IF h.threw /\ h.error = "Unhandled MDX AST type"
        THEN /\ logger' = logger \o h.log
             /\ pc' = "failed"
             /\ result' = Thrown(h.error)
             /\ UNCHANGED emitted
        ELSE IF h.threw
        THEN /\ logger' = logger \o h.log \o <<Trace("Not yielding unparsable frame")>>
             /\ pc' = "loop"
             /\ UNCHANGED <<emitted, result>>
        ELSE /\ logger' = logger \o h.log
             /\ emitted' = Append(emitted, h.value)
             /\ pc' = "suspendedYield"
             /\ UNCHANGED result
  /\ UNCHANGED <<components, hydrate, frame, frames, final, requested>>

\* HydrateFrame with a catch that yields the last good value again
HydrateFrameRepeatsLast ==
  /\ pc = "try"
  /\ LET h == hydrateMDX(frame, components) IN
     /\ hydrations' = Append(hydrations, frame)
     /\ IF h.threw /\ emitted = <<>>
        THEN /\ logger' = logger \o h.log \o <<Trace("Not yielding unparsable frame")>>
             /\ pc' = "loop"
             /\ UNCHANGED emitted
        ELSE /\ logger' = logger \o h.log
             /\ emitted' = Append(emitted, IF h.threw THEN emitted[Len(emitted)] ELSE h.value)
             /\ pc' = "suspendedYield"
  /\ UNCHANGED <<components, hydrate, frame, frames, final, result, requested>>

\* HydrateFrame that yields the first walk and then the returned element
HydrateFrameYieldsTwice ==
  /\ pc = "try"
  /\ LET h == hydrateMDX(frame, components) IN
     /\ hydrations' = Append(hydrations, frame)
     /\ IF h.threw
        THEN /\ logger' = logger \o h.log \o <<Trace("Not yielding unparsable frame")>>
             /\ pc' = "loop"
             /\ UNCHANGED emitted
        ELSE /\ logger' = logger \o h.log
             /\ emitted' = emitted \o <<h.value, h.value>>
             /\ pc' = "suspendedYield"
  /\ UNCHANGED <<components, hydrate, frame, frames, final, result, requested>>

\* try { yield hydrateMDX(frame, components) } catch { }
HydrateFrame ==
  /\ pc = "try"
  /\ \E h \in {hydrateMDX(frame, components)} :
     /\ hydrations' = Append(hydrations, frame)
     /\ IF h.threw
        THEN /\ logger' = logger \o h.log \o <<Trace("Not yielding unparsable frame")>>
             /\ pc' = "loop"
             /\ UNCHANGED emitted
        ELSE /\ logger' = logger \o h.log
             /\ emitted' = Append(emitted, h.value)
             /\ pc' = "suspendedYield"
  /\ UNCHANGED <<components, hydrate, frame, frames, final, result, requested>>

\* Resume in a generator that collects the components again in every iteration
ResumeCollectsAgain ==
  /\ pc = "suspendedYield"
  /\ logger' = Append(logger, Trace("Yielding parsable frame"))
  /\ pc' = "loop"
  /\ components' \in Registries
  /\ UNCHANGED <<hydrate, frame, frames, final, emitted, result, hydrations, requested>>

\* the consumer's next() after a yield
Resume ==
  /\ pc = "suspendedYield"
  /\ logger' = Append(logger, Trace("Yielding parsable frame"))
  /\ pc' = "loop"
  /\ UNCHANGED <<components, hydrate, frame, frames, final, emitted, result, hydrations,
                 requested>>

\* Cancel in a generator that goes on with the loop when it is returned
CancelGoesOn ==
  /\ pc \in {"suspendedStart", "suspendedYield"}
  /\ pc' = "awaitFrame"
  /\ requested' = requested + 1
  /\ result' = Returned(undefined)
  /\ UNCHANGED <<components, hydrate, frame, frames, final, emitted, logger, hydrations>>

\* the consumer's return(): a generator that is not running completes where it stands
Cancel ==
  /\ pc \in {"suspendedStart", "suspendedYield"}
  /\ pc' = "cancelled"
  /\ result' = Returned(undefined)
  /\ UNCHANGED <<components, hydrate, frame, frames, final, emitted, logger, hydrations,
                 requested>>

\* Finalize that returns the last frame it yielded instead of hydrating the final value
FinalizeReturnsLastFrame ==
  /\ pc = "finalize"
  /\ hydrations' = hydrations
  /\ logger' = logger
  /\ pc' = "done"
  /\ result' = Returned(IF emitted = <<>> THEN undefined ELSE emitted[Len(emitted)])
  /\ UNCHANGED <<components, hydrate, frame, frames, final, emitted, requested>>

\* Finalize inside the catch of the loop: a final value that fails is swallowed
FinalizeSwallows ==
  /\ pc = "finalize"
  /\ LET h == hydrateMDX(final, components) IN
     /\ hydrations' = Append(hydrations, final)
     /\ logger' = logger \o h.log
     /\ pc' = "done"
     /\ result' = Returned(IF h.threw THEN undefined ELSE h.value)
  /\ UNCHANGED <<components, hydrate, frame, frames, final, emitted, requested>>

\* Finalize that yields the final value before it returns it
FinalizeAlsoYields ==
  /\ pc = "finalize"
  /\ LET h == hydrateMDX(final, components) IN
     /\ hydrations' = Append(hydrations, final)
     /\ logger' = logger \o h.log
     /\ IF h.threw
        THEN pc' = "failed" /\ result' = Thrown(h.error) /\ UNCHANGED emitted
        ELSE pc' = "done" /\ result' = Returned(h.value) /\ emitted' = Append(emitted, h.value)
  /\ UNCHANGED <<components, hydrate, frame, frames, final, requested>>

\* return hydrateMDX(await renderedCompletion, components)
Finalize ==
  /\ pc = "finalize"
  /\ \E h \in {hydrateMDX(final, components)} :
     /\ hydrations' = Append(hydrations, final)
     /\ logger' = logger \o h.log
     /\ IF h.threw
        THEN pc' = "failed" /\ result' = Thrown(h.error)
        ELSE pc' = "done" /\ result' = Returned(h.value)
  /\ UNCHANGED <<components, hydrate, frame, frames, final, emitted, requested>>

Next ==
  \/ Start
  \/ RequestFrame
  \/ FrameArrives
  \/ StreamEnds
  \/ HydrateFrame
  \/ Resume
  \/ Cancel
  \/ Finalize

Spec == Init /\ [][Next]_vars

\* the generator runs to its next suspension, the source is finite, and a
\* consumer that has not returned the generator goes on pulling
FairSpec == Spec /\ WF_vars(Next)

(***************************************************************************)
(* One call of hydrateMDX, or of the walk alone, on a document             *)
(***************************************************************************)
WalkInit ==
  /\ components \in Registries
  /\ hydrate = TRUE
  /\ pc \in {"callHydrateMDX", "callConvertAstToComponent"}
  /\ frame = undefined
  /\ frames = <<>>
  /\ final \in Documents
  /\ (pc = "callConvertAstToComponent" => final.wellFormed)
  /\ emitted = <<>>
  /\ result = Pending
  /\ logger = <<>>
  /\ hydrations = <<>>
  /\ requested = 0

Outcome(h) == IF h.threw THEN Thrown(h.error) ELSE Returned(h.value)

CallHydrateMDX ==
  /\ pc = "callHydrateMDX"
  /\ LET h == hydrateMDX(final, components) IN
     /\ result' = Outcome(h)
     /\ logger' = h.log
  /\ pc' = "hydrated"
  /\ UNCHANGED <<components, hydrate, frame, frames, final, emitted, hydrations, requested>>

CallConvertAstToComponent ==
  /\ pc = "callConvertAstToComponent"
  /\ LET h == convertAstToComponent(final.ast, components) IN
     /\ result' = Outcome(h)
     /\ logger' = h.log
  /\ pc' = "converted"
  /\ UNCHANGED <<components, hydrate, frame, frames, final, emitted, hydrations, requested>>

WalkNext ==
  \/ CallHydrateMDX
  \/ CallConvertAstToComponent

WalkSpec == WalkInit /\ [][WalkNext]_vars

(***************************************************************************)
(* Properties of the session                                               *)
(***************************************************************************)
Hydrates(mdx) == ~hydrateMDX(mdx, components).threw

HydrationOf(mdx) == hydrateMDX(mdx, components).value

ErrorOf(mdx) == hydrateMDX(mdx, components).error

\* the frames the loop is through with
Processed == IF pc = "try" THEN SubSeq(frames, 1, Len(frames) - 1) ELSE frames

RECURSIVE HydrationsOf(_)
\* the hydrations of the frames of a sequence that hydrate, in the order of the frames
HydrationsOf(fs) ==
  IF fs = <<>> THEN <<>>
  ELSE (IF Hydrates(Head(fs)) THEN <<HydrationOf(Head(fs))>> ELSE <<>>) \o HydrationsOf(Tail(fs))

\* C1: terminal guarantee.  With hydrate set and a consumer that does not
\* return the generator, every session whose final document parses and walks
\* ends in "done" with the hydration of the final document as its value,
\* whatever the frames before it did (also when none of them was emitted).
C1_TerminalGuarantee ==
  <>( \/ ~hydrate
      \/ pc = "cancelled"
      \/ /\ final # undefined
         /\ \/ ~Hydrates(final)
            \/ pc = "done" /\ result = Returned(HydrationOf(final)) )

\* C1 witness: a session ended with the hydration of the final document
\* although every frame before it failed and nothing was emitted.
C1_Witness ==
  /\ hydrate
  /\ pc = "done"
  /\ Len(frames) = MaxFrames
  /\ \A i \in DOMAIN frames : ~Hydrates(frames[i])
  /\ emitted = <<>>
  /\ result = Returned(HydrationOf(final))

\* C2: only parsable frames are emitted.  Every value the consumer received
\* is the hydration of an arrived frame that is well formed and whose walk
\* returned, and the step that handles a frame whose hydration throws
\* leaves the emitted sequence as it was.
C2_OnlyParsableFramesEmitted ==
  /\ [](\A i \in DOMAIN emitted :
          \E j \in DOMAIN frames :
            /\ frames[j].wellFormed
            /\ ~convertAstToComponent(frames[j].ast, components).threw
            /\ emitted[i] = HydrationOf(frames[j]))
  /\ [][(pc = "try" /\ ~Hydrates(frame)) => emitted' = emitted]_vars

\* C2 witness: a malformed frame and a frame whose walk throws were handled,
\* and nothing was emitted for either.
C2_Witness ==
  /\ pc = "loop"
  /\ Len(frames) = 2
  /\ ~frames[1].wellFormed
  /\ frames[2].wellFormed /\ ~Hydrates(frames[2])
  /\ emitted = <<>>

\* C3: once the final document was handled, if its hydration throws (parse
\* or walk) the generator has failed with that error and has no return value.
C3_FinalFailurePropagates ==
  (hydrate /\ final # undefined /\ pc # "finalize" /\ ~Hydrates(final))
    => (pc = "failed" /\ result = Thrown(ErrorOf(final)))

\* C3 witness: the generator failed on a final document whose walk throws.
C3_Witness ==
  /\ pc = "failed"
  /\ final.wellFormed
  /\ result.status = "thrown"

\* C4: a session that ends in "done" hydrated each arrived frame once, in
\* order, and the final document once, after them; its value is the
\* hydration of the final document; the final step emits nothing; at most
\* one value was emitted per frame; and no step leaves "done".
C4_OneTerminalValue ==
  /\ []((hydrate /\ pc = "done") =>
          /\ result = Returned(HydrationOf(final))
          /\ hydrations = Append(frames, final)
          /\ Len(emitted) <= Len(frames))
  /\ [][pc # "done" /\ (pc = "finalize" => emitted' = emitted)]_vars

\* C4 witness: a session ended after an emitted frame, with a final document
\* other than that frame.
C4_Witness ==
  /\ hydrate
  /\ pc = "done"
  /\ Len(emitted) = 1
  /\ result.value # emitted[1]

UnhandledKind == "Unhandled MDX AST type"

\* C5 as stated: a frame of the loop whose walk meets an unhandled node kind
\* ends the generator with that error.
C5_UnhandledKindAlwaysSurfaces ==
  [][(pc = "try" /\ ErrorOf(frame) = UnhandledKind)
       => (pc' = "failed" /\ result' = Thrown(UnhandledKind))]_vars

\* C5 amended: the unhandled-node-kind error ends the generator only when it
\* is thrown while hydrating the final document; thrown while hydrating a
\* frame of the loop it is caught like every other failure of a frame:
\* nothing is emitted, nothing is surfaced, and the loop goes on.
C5_UnhandledKindSurfacesOnFinalOnly ==
  [][/\ (pc = "try" /\ ErrorOf(frame) = UnhandledKind)
          => (pc' = "loop" /\ emitted' = emitted /\ result' = Pending)
     /\ (pc = "finalize" /\ ErrorOf(final) = UnhandledKind)
          => (pc' = "failed" /\ result' = Thrown(UnhandledKind))]_vars

\* C5 witness: the generator failed with the unhandled-node-kind error of the
\* final document after the loop went through a frame with the same error.
C5_Witness ==
  /\ pc = "failed"
  /\ result = Thrown(UnhandledKind)
  /\ \E j \in DOMAIN frames : frames[j].wellFormed /\ ErrorOf(frames[j]) = UnhandledKind

\* a child of the root is a tag of a registered component with an attribute
\* whose value is an expression
HasRegisteredTagWithExpression(mdx) ==
  /\ mdx.wellFormed
  /\ \E i \in DOMAIN mdx.ast.children :
       LET node == mdx.ast.children[i] IN
       /\ node.type \in {"mdxJsxTextElement", "mdxJsxFlowElement"}
       /\ node.name \in DOMAIN components
       /\ \E k \in DOMAIN node.attributes : node.attributes[k].value.js = "object"

\* C6: a frame of the loop with a registered tag that carries an expression
\* attribute is skipped (nothing emitted, no result, the loop goes on); the
\* same document as the final value ends the generator with a thrown error
\* and emits nothing.
C6_ExpressionAttribute ==
  [][/\ (pc = "try" /\ HasRegisteredTagWithExpression(frame))
          => (pc' = "loop" /\ emitted' = emitted /\ result' = Pending)
     /\ (pc = "finalize" /\ HasRegisteredTagWithExpression(final))
          => (pc' = "failed" /\ result'.status = "thrown" /\ emitted' = emitted)]_vars

\* C6 witness: the generator failed on a final document with such a tag after
\* the loop skipped a frame with such a tag.
C6_Witness ==
  /\ pc = "failed"
  /\ HasRegisteredTagWithExpression(final)
  /\ result = Thrown("Unimplemented code path")
  /\ \E j \in DOMAIN frames : HasRegisteredTagWithExpression(frames[j])
  /\ emitted = <<>>

IsTag(node) == node.type \in {"mdxJsxTextElement", "mdxJsxFlowElement"}

IsUnknownTag(node) == IsTag(node) /\ node.name \notin DOMAIN components

HasLiteralAttributes(node) ==
  \A k \in DOMAIN node.attributes : node.attributes[k].value.js \in {"null", "string"}

\* the log entries about ignored (unregistered) components
Diagnostics == SelectSeq(logger, LAMBDA e : e.msg = "Ignoring component")

\* C7 as stated: hydrating a document whose root holds text nodes and one tag
\* of an unregistered component (with literal attributes) returns, and the
\* log holds exactly one diagnostic for that tag.
C7_OneDiagnosticPerUnknownTag ==
  (/\ pc = "hydrated"
   /\ final.wellFormed
   /\ \E i \in DOMAIN final.ast.children :
        /\ IsUnknownTag(final.ast.children[i])
        /\ HasLiteralAttributes(final.ast.children[i])
        /\ \A j \in DOMAIN final.ast.children : j # i => final.ast.children[j].type = "text")
    => (result.status = "returned" /\ Len(Diagnostics) = 1)

\* C8 as stated: the walk of a document whose root holds only text nodes and
\* tags of unregistered components, whatever their attributes, returns.
C8_UnknownTagNeverFailsTheWalk ==
  (/\ pc = "converted"
   /\ \E i \in DOMAIN final.ast.children : IsUnknownTag(final.ast.children[i])
   /\ \A i \in DOMAIN final.ast.children :
        final.ast.children[i].type = "text" \/ IsUnknownTag(final.ast.children[i]))
    => result.status = "returned"

\* C9: the handling of a frame never ends the generator, a frame whose
\* hydration throws leads to the next request to the source, and a failed
\* generator failed on the final document, after every arrived frame was
\* hydrated.
C9_FrameFailuresDoNotTerminate ==
  /\ ((pc = "try" /\ ~Hydrates(frame)) ~> (pc = "awaitFrame"))
  /\ [](pc = "failed" =>
          /\ final # undefined
          /\ ~Hydrates(final)
          /\ hydrations = Append(frames, final))
  /\ [][pc = "try" => (pc' \in {"loop", "suspendedYield"} /\ result' = Pending)]_vars

\* C9 witness: a session went through a frame that failed, then a frame that
\* was emitted, and ended with the value of the final document.
C9_Witness ==
  /\ pc = "done"
  /\ Len(frames) = 2
  /\ ~Hydrates(frames[1])
  /\ emitted = <<HydrationOf(frames[2])>>
  /\ result = Returned(HydrationOf(final))

\* C10: the emitted sequence is the sequence of the hydrations of the frames
\* handled so far that hydrate, each once, in the order of arrival (so its
\* last element is the hydration of the latest frame that hydrated).
C10_EmittedInArrivalOrder ==
  hydrate => emitted = HydrationsOf(Processed)

\* C10 witness: a frame was emitted, the frame after it failed, and the last
\* emitted value is still the hydration of the first.
C10_Witness ==
  /\ pc = "loop"
  /\ Len(frames) = 2
  /\ Hydrates(frames[1]) /\ ~Hydrates(frames[2])
  /\ emitted = <<HydrationOf(frames[1])>>

\* C11: frames are hydrated in the order of their arrival and one at a time:
\* at most one arrived frame is not hydrated yet, and it is the frame in
\* hand; the frames hydrated so far are the arrived ones in order; and the
\* source is asked for one more frame only when every arrived frame has been
\* hydrated to its end (value or throw).
C11_FramesInOrderNoOverlap ==
  /\ [](/\ Len(hydrations) >= Len(frames) - 1
        /\ \A i \in DOMAIN frames : i <= Len(hydrations) => hydrations[i] = frames[i]
        /\ Len(hydrations) < Len(frames) => pc = "try"
        /\ requested \in {Len(frames), Len(frames) + 1})
  /\ [][requested' # requested => (hydrations = frames /\ requested' = requested + 1)]_vars

\* C11 witness: the source is asked again after two frames were hydrated, one
\* that threw and one that was emitted.
C11_Witness ==
  /\ pc = "awaitFrame"
  /\ Len(frames) = 2
  /\ requested = 3
  /\ hydrations = frames
  /\ ~Hydrates(frames[1])
  /\ Hydrates(frames[2])

Suspended == pc \in {"suspendedStart", "suspendedYield"}

\* C12: while the generator waits for its consumer it asks the source for
\* nothing and hydrates nothing, and once the consumer has returned it no
\* step follows: no frame is requested or hydrated, and the final document
\* is never taken.
C12_Cancellation ==
  /\ [][Suspended => (/\ requested' = requested
                      /\ hydrations' = hydrations
                      /\ frames' = frames
                      /\ final' = final)]_vars
  /\ [][pc # "cancelled"]_vars
  /\ [](pc = "cancelled" => (final = undefined /\ hydrations = frames))

\* C12 witness: the consumer returned the generator after it received a value.
C12_Witness ==
  /\ pc = "cancelled"
  /\ Len(emitted) = 1
  /\ Len(frames) < MaxFrames
  /\ final = undefined

\* C13: every session ends (done, failed or cancelled), and at every moment
\* at most one value per arrived frame has been emitted, and at most one
\* hydration per arrived frame plus one for the final document has run.
C13_FiniteAndBounded ==
  /\ <>(pc \in {"done", "failed", "cancelled"})
  /\ [](/\ Len(emitted) <= Len(frames)
        /\ Len(hydrations) <= Len(frames) + 1
        /\ requested <= Len(frames) + 1)

\* C13 witness: a session ended with a value after every one of its frames was emitted.
C13_Witness ==
  /\ hydrate
  /\ pc = "done"
  /\ Len(frames) = MaxFrames
  /\ Len(emitted) = Len(frames)
  /\ Len(hydrations) = Len(frames) + 1

(***************************************************************************)
(* Properties of the walk (one call of convertAstToComponent on a root)    *)
(***************************************************************************)
\* the children of the root that was walked, and the children of the div it gave
Children == final.ast.children

Walked == result.value.children

Converted == pc = "converted" /\ result.status = "returned"

IsRegisteredTag(node) == IsTag(node) /\ node.name \in DOMAIN components

WalksChildren(node) == ~mapChildren(node.children, components).threw

\* the results of walking each node of a sequence on its own, without the nulls
Kept(nodes) ==
  LET each == [i \in DOMAIN nodes |-> convertAstToComponent(nodes[i], components).value]
  IN SelectSeq(each, LAMBDA v : v # null)

LineBreak == ReactElement("br", <<>>, <<>>)

Display(value) == ReactElement("span", <<>>, <<Str(value)>>)

\* C14: a root of text nodes walks to a div with one child per text node:
\* the line break for the value "\n", and for every other value a span
\* whose children are the one-element sequence of the whole value.
C14_TextPolicy ==
  (pc = "converted" /\ Children # <<>> /\ \A i \in DOMAIN Children : Children[i].type = "text")
    => /\ result.status = "returned"
       /\ DOMAIN Walked = DOMAIN Children
       /\ \A i \in DOMAIN Children :
            /\ Children[i].value = "\n" => Walked[i] = LineBreak
            /\ Children[i].value # "\n" =>
                 (Walked[i] = Display(Children[i].value) /\ Len(Walked[i].children) = 1)

\* C14 witness: the walk of "\n" followed by "hello".
C14_Witness ==
  /\ Converted
  /\ Children = <<Text("\n"), Text("hello")>>
  /\ Walked = <<LineBreak, Display("hello")>>

\* the value the props hold for a name: that of the last attribute of the
\* name, true when the attribute is bare
PropsOf(attributes) ==
  [n \in {attributes[k].name : k \in DOMAIN attributes} |->
     LET last == CHOOSE k \in DOMAIN attributes :
                   /\ attributes[k].name = n
                   /\ \A k2 \in DOMAIN attributes : k2 > k => attributes[k2].name # n
     IN IF attributes[last].value = null THEN true ELSE attributes[last].value]

\* C15: a root of tags of registered components whose attributes are all
\* literal (and whose children walk) gives, for each tag, an element of the
\* registered component with the props of its attributes (a bare attribute
\* is true) and the walked children.
C15_PropsExtraction ==
  (/\ pc = "converted"
   /\ Children # <<>>
   /\ \A i \in DOMAIN Children :
        /\ IsRegisteredTag(Children[i])
        /\ HasLiteralAttributes(Children[i])
        /\ WalksChildren(Children[i]))
    => /\ result.status = "returned"
       /\ DOMAIN Walked = DOMAIN Children
       /\ \A i \in DOMAIN Children :
            Walked[i] = ReactElement(components[Children[i].name],
                                     PropsOf(Children[i].attributes),
                                     Kept(Children[i].children))

\* C15 witness: <Badge open color='red' color='blue'> with children was walked.
C15_Witness ==
  /\ Converted
  /\ Len(Children) = 1
  /\ IsRegisteredTag(Children[1])
  /\ Walked[1].type = "BadgeComponent"
  /\ Walked[1].props = [open |-> true, color |-> Str("blue")]
  /\ Walked[1].children = <<Display("Hi"), LineBreak>>

\* C16 as stated: a root with one plain element (whose children walk) gives
\* an element that carries the tag name of the element and whose children
\* are the walked children.
C16_ElementCarriesTagName ==
  (/\ pc = "converted"
   /\ Len(Children) = 1
   /\ Children[1].type = "element"
   /\ WalksChildren(Children[1]))
    => /\ result.status = "returned"
       /\ Walked = <<ReactElement(Children[1].tagName, <<>>, Kept(Children[1].children))>>

WalksToNothing(node) == node.type = "mdxjsEsm" \/ IsUnknownTag(node)

\* C18: the div of a walked root has as many children as the root has
\* children that are neither an import nor a tag of an unregistered
\* component, and none of them is null.
C18_RootFiltersEmpty ==
  Converted =>
    /\ Len(Walked) = Cardinality({i \in DOMAIN Children : ~WalksToNothing(Children[i])})
    /\ \A k \in DOMAIN Walked : Walked[k] # null

\* C18 witness: a root of two children, one of which walks to nothing.
C18_Witness ==
  /\ Converted
  /\ Len(Children) = 2
  /\ WalksToNothing(Children[1])
  /\ ~WalksToNothing(Children[2])
  /\ Len(Walked) = 1

C20_UnknownSubtreeNotWalked ==
  (/\ pc = "converted"
   /\ Children # <<>>
   /\ \A i \in DOMAIN Children :
        IsUnknownTag(Children[i]) /\ HasLiteralAttributes(Children[i]))
    => /\ result = Returned(ReactElement("div", <<>>, <<>>))
       /\ logger = [i \in DOMAIN Children |-> Warn("Ignoring component", Children[i].name)]

\* C20 witness: an unregistered tag that contains a tag with an expression
\* attribute and a node of an unhandled kind was walked, and one that
\* contains another unregistered tag.
C20_Witness ==
  /\ Converted
  /\ Len(Children) = 2
  /\ IsUnknownTag(Children[1])
  /\ \E k \in DOMAIN Children[1].children : Children[1].children[k] = FlowExpression
  /\ IsUnknownTag(Children[2])
  /\ \E k \in DOMAIN Children[2].children : IsUnknownTag(Children[2].children[k])
  /\ Len(logger) = 2

(***************************************************************************)
(* Stability of the emitted trees within a session                         *)
(***************************************************************************)
\* document g keeps the children of the root of document f and adds to them
Extends(f, g) ==
  /\ f.wellFormed /\ g.wellFormed
  /\ Len(f.ast.children) <= Len(g.ast.children)
  /\ SubSeq(g.ast.children, 1, Len(f.ast.children)) = f.ast.children

\* the index in emitted of the hydration of frame a
EmittedIndex(a) == Len(HydrationsOf(SubSeq(frames, 1, a)))

\* the children of the div in an emitted <AI.React> element
TreeOf(value) == value.children[1].children

IsInvocation(node) == node.type \notin {"div", "span", "br"}

\* C17: the registry of a session never changes, and when a frame was emitted
\* and a later frame that extends it was emitted too, every element of a
\* registered component in the tree of the first is, at the same place in
\* the tree of the later one, an element of the same component.
C17_StabilityUnderExtension ==
  /\ [][components' = components]_vars
  /\ [](hydrate =>
          \A a, b \in DOMAIN Processed :
            (a < b /\ Hydrates(frames[a]) /\ Hydrates(frames[b]) /\ Extends(frames[a], frames[b]))
              => /\ EmittedIndex(a) \in DOMAIN emitted
                 /\ EmittedIndex(b) \in DOMAIN emitted
                 /\ LET ta == TreeOf(emitted[EmittedIndex(a)])
                        tb == TreeOf(emitted[EmittedIndex(b)])
                    IN \A k \in DOMAIN ta :
                         IsInvocation(ta[k]) => (k \in DOMAIN tb /\ tb[k].type = ta[k].type))

\* C17 witness: a frame with an element of a registered component was
\* emitted, and then a longer frame that extends it.
C17_Witness ==
  /\ hydrate
  /\ Len(frames) = 2
  /\ Len(emitted) = 2
  /\ Extends(frames[1], frames[2])
  /\ frames[1] # frames[2]
  /\ \E k \in DOMAIN TreeOf(emitted[1]) :
       /\ IsInvocation(TreeOf(emitted[1])[k])
       /\ TreeOf(emitted[2])[k].type = "BadgeComponent"

====
